---- MODULE Spec2Model ----
(***************************************************************************)
(* A model of scrap_v2.py: the section parsers (parse_table,               *)
(* parse_peers_section, parse_growth_tables, parse_commentary_html, ...)   *)
(* as operators over a small DOM, and scrape_screener_data as a state      *)
(* machine with one action per step of the function.                       *)
(*                                                                         *)
(* Encodings.  A Python dict is a function whose domain is its key set;    *)
(* a Python list is a sequence; an optional tag (the result of select_one, *)
(* or None) is NONE or <<tag>>.  A text is a TLA+ string; the raw texts    *)
(* that occur in the modelled documents are listed in Strip, StripJoin     *)
(* and RStripColon, which give the result of the Python operation on each. *)
(***************************************************************************)
EXTENDS Integers, Sequences, FiniteSets, TLC

VARIABLES
    pc,           \* position inside scrape_screener_data
    soup,         \* the parsed primary document (NONE before the fetch)
    results,      \* the dict scrape_screener_data builds
    company_id,   \* NONE or <<digits>>
    link_idx,     \* index of the next anchor of nav_links
    fetches,      \* the HTTP requests issued so far, in order
    commentary,   \* the commentary document received (NONE if none)
    returned,     \* NONE or <<the dict returned>>
    called,       \* which parser has been applied to arg ("none" before)
    arg,          \* input of a parser called on its own
    ret           \* its output

vars == <<pc, soup, results, company_id, link_idx, fetches, commentary,
          returned, called, arg, ret>>

scrapeVars == <<pc, soup, results, company_id, link_idx, fetches, commentary,
                returned>>

callVars == <<called, arg, ret>>

-----------------------------------------------------------------------------
(* Bounds of the explored inputs *)

MaxRows == 3

MaxGrowthRows == 2

MaxTables == 2

MaxNodes == 3

MaxLinks == 2

MaxStyles == 2

-----------------------------------------------------------------------------
(* Python values *)

NONE == <<>>

Some(x) == <<x>>

EmptyDict == [k \in {} |-> <<>>]

Put(d, k, v) == [x \in (DOMAIN d) \cup {k} |-> IF x = k THEN v ELSE d[x]]

SeqsUpTo(S, n) == UNION {[1..m -> S] : m \in 0..n}

\* str.strip() / get_text(strip=True) on the texts of the modelled documents
Strip(s) ==
    CASE s = " " -> ""
      [] s = " b " -> "b"
      [] s = " Peers " -> "Peers"
      [] s = " Kotak Mahindra Bank Ltd " -> "Kotak Mahindra Bank Ltd"
      [] s = " Return on Equity " -> "Return on Equity"
      [] s = " 21% " -> "21%"
      [] s = " 5 Years: " -> "5 Years:"
      [] s = " About " -> "About"
      [] s = " is a  bank " -> "is a  bank"
      [] OTHER -> s

\* get_text(" ", strip=True): the stripped text nodes joined by one space
StripJoin(s) ==
    CASE s = " is a  bank " -> "is a bank"
      [] OTHER -> Strip(s)

\* str.rstrip(":"): every trailing colon removed
RStripColon(s) ==
    CASE s = "10 Years:" -> "10 Years"
      [] s = "5 Years:" -> "5 Years"
      [] s = "TTM::" -> "TTM"
      [] OTHER -> s

-----------------------------------------------------------------------------
(* Tables.  A cell is [tag, text]; a row is a sequence of cells; a table   *)
(* is [classes, thead, tbody, tfoot], each part NONE or <<rows>>.          *)

Blank == [tag |-> "td", text |-> " "]

CellA == [tag |-> "td", text |-> "a"]

CellB == [tag |-> "th", text |-> " b "]

BodyRowSet == {<<>>, <<Blank>>, <<Blank, Blank>>, <<CellA>>, <<Blank, CellB>>,
               <<CellA, Blank>>}

HeadChoices == {NONE, Some(<< >>), Some(<< <<CellB, CellA>> >>),
                Some(<< <<[tag |-> "th", text |-> "a"]>>, <<CellB>> >>)}

\* [cell.get_text(strip=True) for cell in cells]
CellTexts(cells) == [i \in 1..Len(cells) |-> Strip(cells[i].text)]

\* any(item for item in row_data): some text is non-empty
AnyText(row_data) == \E i \in 1..Len(row_data) : row_data[i] # ""

SelectTag(cells, tag) == SelectSeq(cells, LAMBDA c : c.tag = tag)

\* the loop "for row in rows: ...; if any(...): data_rows.append(row_data)"
RECURSIVE NonBlankRows(_, _, _)
NonBlankRows(rows, i, acc) ==
    IF i > Len(rows) THEN acc
    ELSE LET row_data == CellTexts(rows[i])
         IN  NonBlankRows(rows, i + 1,
                          IF AnyText(row_data) THEN Append(acc, row_data) ELSE acc)

\* a variant that keeps every row
RECURSIVE AllRows(_, _, _)
AllRows(rows, i, acc) ==
    IF i > Len(rows) THEN acc
    ELSE AllRows(rows, i + 1, Append(acc, CellTexts(rows[i])))

\* parse_table with the blank-row test dropped
parse_table_keep_blank(table_tag) ==
    IF table_tag = NONE THEN EmptyDict
    ELSE LET t == table_tag[1]
             header_row == IF t.thead # NONE /\ Len(t.thead[1]) > 0
                           THEN Some(t.thead[1][1]) ELSE NONE
             headers == IF header_row # NONE
                        THEN CellTexts(SelectTag(header_row[1], "th")) ELSE <<>>
             data_rows == IF t.tbody # NONE THEN AllRows(t.tbody[1], 1, <<>>)
                          ELSE <<>>
         IN  [headers |-> headers, rows |-> data_rows]

parse_table(table_tag) ==
    IF table_tag = NONE THEN EmptyDict
    ELSE LET t == table_tag[1]
             header_row == IF t.thead # NONE /\ Len(t.thead[1]) > 0
                           THEN Some(t.thead[1][1]) ELSE NONE
             headers == IF header_row # NONE
                        THEN CellTexts(SelectTag(header_row[1], "th")) ELSE <<>>
             data_rows == IF t.tbody # NONE THEN NonBlankRows(t.tbody[1], 1, <<>>)
                          ELSE <<>>
         IN  [headers |-> headers, rows |-> data_rows]

\* select_one("table.<classes>"): the first table carrying all the classes
RECURSIVE FirstTable(_, _, _)
FirstTable(tables, classes, i) ==
    IF i > Len(tables) THEN NONE
    ELSE IF classes \subseteq tables[i].classes THEN Some(tables[i])
    ELSE FirstTable(tables, classes, i + 1)

DataTable(section) == FirstTable(section.tables, {"data-table"}, 1)

parse_quarters_section(quarters_soup) ==
    Put(EmptyDict, "quarterly_results", parse_table(DataTable(quarters_soup)))

parse_profit_loss_section(pnl_soup) ==
    Put(EmptyDict, "profit_loss", parse_table(DataTable(pnl_soup)))

parse_balance_sheet_section(bs_soup) ==
    Put(EmptyDict, "balance_sheet", parse_table(DataTable(bs_soup)))

parse_cash_flow_section(cf_soup) ==
    Put(EmptyDict, "cash_flow", parse_table(DataTable(cf_soup)))

parse_ratios_section(ratios_soup) ==
    Put(EmptyDict, "ratios", parse_table(DataTable(ratios_soup)))

parse_shareholding_section(sh_soup) ==
    Put(EmptyDict, "shareholding", parse_table(DataTable(sh_soup)))

-----------------------------------------------------------------------------
(* The other section parsers.  A section is [about, key_points,            *)
(* top_ratios, pros, cons, tables, text]: the sub-elements its parsers     *)
(* select, each NONE when the element is missing.                          *)

RatioItems(top_ratios) ==
    LET both == SelectSeq(top_ratios, LAMBDA r : r.name # NONE /\ r.value # NONE)
    IN  [i \in 1..Len(both) |->
            [ratio_name |-> Strip(both[i].name[1]),
             ratio_value |-> Strip(both[i].value[1])]]

parse_summary_section(summary_soup) ==
    [about |-> IF summary_soup.about # NONE THEN Strip(summary_soup.about[1]) ELSE "",
     key_points |-> IF summary_soup.key_points # NONE
                    THEN StripJoin(summary_soup.key_points[1]) ELSE "",
     top_ratios |-> RatioItems(summary_soup.top_ratios)]

ItemTexts(ul) == IF ul = NONE THEN <<>>
                 ELSE [i \in 1..Len(ul[1]) |-> Strip(ul[1][i])]

parse_analysis_section(analysis_soup) ==
    [pros |-> ItemTexts(analysis_soup.pros), cons |-> ItemTexts(analysis_soup.cons)]

PeerClasses == {"data-table", "text-nowrap", "striped", "mark-visited",
                "no-scroll-right"}

\* thead.select("tr th"): the th cells of every row of the thead
RECURSIVE AllTh(_, _, _)
AllTh(rows, i, acc) ==
    IF i > Len(rows) THEN acc
    ELSE AllTh(rows, i + 1, acc \o SelectTag(rows[i], "th"))

PeerTableData(table) ==
    [headers |-> IF table.thead # NONE
                 THEN CellTexts(AllTh(table.thead[1], 1, <<>>)) ELSE <<>>,
     rows |-> IF table.tbody # NONE
              THEN NonBlankRows(table.tbody[1], 1, <<>>) ELSE <<>>,
     footer |-> IF table.tfoot # NONE
                THEN NonBlankRows(table.tfoot[1], 1, <<>>) ELSE <<>>]

NoPeerTable == [info |-> "No peer table found"]

\* parse_peers_section selecting on the data-table class alone
parse_peers_section_any_data_table(peers_soup) ==
    LET table == FirstTable(peers_soup.tables, {"data-table"}, 1)
    IN  IF table = NONE THEN [peer_comparison |-> NoPeerTable]
        ELSE [peer_comparison |-> PeerTableData(table[1])]

parse_peers_section(peers_soup) ==
    LET table == FirstTable(peers_soup.tables, PeerClasses, 1)
    IN  IF table = NONE THEN [peer_comparison |-> NoPeerTable]
        ELSE [peer_comparison |-> PeerTableData(table[1])]

parse_documents_section(docs_soup) ==
    [documents_info |-> StripJoin(docs_soup.text)]

-----------------------------------------------------------------------------
(* parse_growth_tables.  tbl.select("tr") is every row of the table, in    *)
(* document order.                                                         *)

PartRows(part) == IF part = NONE THEN <<>> ELSE part[1]

AllTr(tbl) == PartRows(tbl.thead) \o PartRows(tbl.tbody) \o PartRows(tbl.tfoot)

\* the inner loop "for row in rows"; st is [heading_text, data]
RECURSIVE GrowthRows(_, _, _)
GrowthRows(rows, i, st) ==
    IF i > Len(rows) THEN st
    ELSE LET row == rows[i]
             ths == SelectTag(row, "th")
             tds == SelectTag(row, "td")
         IN  IF Len(ths) > 0
             THEN LET h == Strip(ths[1].text)
                  IN  GrowthRows(rows, i + 1,
                                 [heading_text |-> Some(h),
                                  data |-> Put(st.data, h, EmptyDict)])
             ELSE IF Len(tds) = 2 /\ st.heading_text # NONE
             THEN LET h == st.heading_text[1]
                      label == RStripColon(Strip(tds[1].text))
                      value == Strip(tds[2].text)
                  IN  GrowthRows(rows, i + 1,
                                 [heading_text |-> st.heading_text,
                                  data |-> Put(st.data, h, Put(st.data[h], label, value))])
             ELSE GrowthRows(rows, i + 1, st)

\* the outer loop "for idx, tbl in enumerate(tables)": heading_text = None
\* at the start of each table
RECURSIVE GrowthTables(_, _, _)
GrowthTables(tables, i, data) ==
    IF i > Len(tables) THEN data
    ELSE GrowthTables(tables, i + 1,
             GrowthRows(AllTr(tables[i]), 1,
                        [heading_text |-> NONE, data |-> data]).data)

\* the outer loop with heading_text kept from one table to the next
RECURSIVE GrowthTablesCarry(_, _, _)
GrowthTablesCarry(tables, i, st) ==
    IF i > Len(tables) THEN st.data
    ELSE GrowthTablesCarry(tables, i + 1, GrowthRows(AllTr(tables[i]), 1, st))

RangesTables(section_soup) ==
    SelectSeq(section_soup.tables, LAMBDA t : "ranges-table" \in t.classes)

parse_growth_tables_carry(section_soup) ==
    GrowthTablesCarry(RangesTables(section_soup), 1,
                      [heading_text |-> NONE, data |-> EmptyDict])

parse_growth_tables(section_soup) ==
    LET tables == RangesTables(section_soup)
    IN  IF Len(tables) = 0 THEN EmptyDict
        ELSE GrowthTables(tables, 1, EmptyDict)

-----------------------------------------------------------------------------
(* parse_commentary_html.  The document is the sequence of sibling nodes   *)
(* that hold the headings; a node is [name, classes, text].                *)

HeadingClasses == {"strong", "upper", "letter-spacing"}

IsHeading(n) == n.name = "div" /\ HeadingClasses \subseteq n.classes

IsSub(n) == n.name = "div" /\ "sub" \in n.classes

\* heading.find_next_sibling("div", class_="sub"): the first later sibling
\* that is a div of class sub
RECURSIVE find_next_sibling(_, _)
find_next_sibling(nodes, i) ==
    IF i + 1 > Len(nodes) THEN NONE
    ELSE IF IsSub(nodes[i + 1]) THEN Some(nodes[i + 1])
    ELSE find_next_sibling(nodes, i + 1)

RECURSIVE CommentaryLoop(_, _, _)
CommentaryLoop(nodes, i, commentary_data) ==
    IF i > Len(nodes) THEN commentary_data
    ELSE IF ~IsHeading(nodes[i]) THEN CommentaryLoop(nodes, i + 1, commentary_data)
    ELSE LET heading_text == Strip(nodes[i].text)
             next_sub == find_next_sibling(nodes, i)
         IN  CommentaryLoop(nodes, i + 1,
                 IF next_sub # NONE
                 THEN Put(commentary_data, heading_text, StripJoin(next_sub[1].text))
                 ELSE commentary_data)

parse_commentary_html(commentary_html) ==
    CommentaryLoop(commentary_html, 1, EmptyDict)

-----------------------------------------------------------------------------
(* The parsers called on their own: the input is drawn in Init, one        *)
(* action applies one parser to it.                                        *)

ScrapeIdle ==
    /\ pc = "idle"
    /\ soup = NONE
    /\ results = EmptyDict
    /\ company_id = NONE
    /\ link_idx = 0
    /\ fetches = <<>>
    /\ commentary = NONE
    /\ returned = NONE

\* a section that holds nothing but the given tables
SectionOf(tables) ==
    [about |-> NONE, key_points |-> NONE, top_ratios |-> <<>>, pros |-> NONE,
     cons |-> NONE, tables |-> tables, text |-> ""]

Call(name, value) ==
    /\ called = "none"
    /\ called' = name
    /\ ret' = value
    /\ UNCHANGED <<arg, scrapeVars>>

\* --- parse_table and the six table sections: arg is NONE or <<table>>

TableInputs ==
    [classes : {{"data-table"}, {"ranges-table"}},
     thead : HeadChoices,
     tbody : {NONE} \cup {Some(b) : b \in SeqsUpTo(BodyRowSet, MaxRows)},
     tfoot : {NONE}]

InitTable ==
    /\ ScrapeIdle
    /\ called = "none"
    /\ ret = NONE
    /\ arg \in {NONE} \cup {Some(t) : t \in TableInputs}

CallParseTable == Call("parse_table", parse_table(arg))

CallQuarters == Call("parse_quarters_section", parse_quarters_section(SectionOf(arg)))

CallProfitLoss == Call("parse_profit_loss_section", parse_profit_loss_section(SectionOf(arg)))

CallBalanceSheet == Call("parse_balance_sheet_section", parse_balance_sheet_section(SectionOf(arg)))

CallCashFlow == Call("parse_cash_flow_section", parse_cash_flow_section(SectionOf(arg)))

CallRatios == Call("parse_ratios_section", parse_ratios_section(SectionOf(arg)))

CallShareholding == Call("parse_shareholding_section", parse_shareholding_section(SectionOf(arg)))

NextTable ==
    \/ CallParseTable
    \/ CallQuarters
    \/ CallProfitLoss
    \/ CallBalanceSheet
    \/ CallCashFlow
    \/ CallRatios
    \/ CallShareholding

SpecTable == InitTable /\ [][NextTable]_vars

\* --- parse_peers_section: arg is a section of up to MaxTables tables

PeerTableInputs ==
    [classes : {PeerClasses, {"data-table"}, PeerClasses \ {"striped"}},
     thead : {NONE, Some(<< <<[tag |-> "th", text |-> "a"]>>, <<CellB, CellA>> >>)},
     tbody : {NONE, Some(<< <<Blank>>, <<CellA, Blank>> >>), Some(<< <<CellB>> >>)},
     tfoot : {NONE, Some(<< <<Blank, Blank>>, <<Blank, CellA>> >>)}]

InitPeers ==
    /\ ScrapeIdle
    /\ called = "none"
    /\ ret = NONE
    /\ arg \in {SectionOf(ts) : ts \in SeqsUpTo(PeerTableInputs, MaxTables)}

CallParsePeers == Call("parse_peers_section", parse_peers_section(arg))

NextPeers == CallParsePeers

SpecPeers == InitPeers /\ [][NextPeers]_vars

\* --- parse_growth_tables: arg is the grid container, up to MaxTables tables

HeadSales == <<[tag |-> "th", text |-> "Compounded Sales Growth"]>>

HeadROE == <<[tag |-> "th", text |-> " Return on Equity "]>>

DataRow == <<[tag |-> "td", text |-> " 5 Years: "], [tag |-> "td", text |-> " 21% "]>>

OneCellRow == <<[tag |-> "td", text |-> "TTM::"]>>

GrowthRowSet == {HeadSales, HeadROE, DataRow, OneCellRow}

GrowthTableInputs ==
    {[classes |-> {"ranges-table"}, thead |-> NONE, tbody |-> Some(rows), tfoot |-> NONE] :
        rows \in SeqsUpTo(GrowthRowSet, MaxGrowthRows)}
    \cup {[classes |-> {"data-table"}, thead |-> NONE,
           tbody |-> Some(<<HeadROE, DataRow>>), tfoot |-> NONE]}

InitGrowth ==
    /\ ScrapeIdle
    /\ called = "none"
    /\ ret = NONE
    /\ arg \in {SectionOf(ts) : ts \in SeqsUpTo(GrowthTableInputs, MaxTables)}

CallParseGrowth == Call("parse_growth_tables", parse_growth_tables(arg))

NextGrowth == CallParseGrowth

SpecGrowth == InitGrowth /\ [][NextGrowth]_vars

\* --- parse_commentary_html: arg is up to MaxNodes sibling nodes

NodeSet ==
    {[name |-> "div", classes |-> HeadingClasses, text |-> " About "],
     [name |-> "div", classes |-> HeadingClasses, text |-> "Key Points"],
     [name |-> "div", classes |-> {"sub"}, text |-> " is a  bank "],
     [name |-> "div", classes |-> {"sub"}, text |-> "x"],
     [name |-> "p", classes |-> {"sub"}, text |-> "y"]}

InitCommentary ==
    /\ ScrapeIdle
    /\ called = "none"
    /\ ret = NONE
    /\ arg \in SeqsUpTo(NodeSet, MaxNodes)

CallParseCommentary == Call("parse_commentary_html", parse_commentary_html(arg))

NextCommentary == CallParseCommentary

SpecCommentary == InitCommentary /\ [][NextCommentary]_vars

-----------------------------------------------------------------------------
(* scrape_screener_data.  The primary document is [name, styles, nav,      *)
(* elems, grid]: the h1 of the company nav (NONE or <<text>>), the texts   *)
(* of the style blocks, the sub-nav (NONE or <<anchors>>, an anchor being  *)
(* [href, text]), the section and div elements that carry an id, in        *)
(* document order, each [tag, id, content], and the grid-styled div (NONE  *)
(* or <<container>>).                                                      *)

Statuses == {200, 404, 503}

\* Response.raise_for_status(): raises for a 4xx or 5xx status
raise_for_status(status_code) == 400 <= status_code /\ status_code < 600

parse_company_name(page) ==
    IF page.name # NONE THEN Strip(page.name[1]) ELSE "UnknownCompany"

StyleTexts == {".flex{gap:4px}",
               "tr[data-row-company-id=\"1818\"]{font-weight:500}",
               "tr[data-row-company-id=\"77\"]{color:red}"}

\* re.search(r'data-row-company-id="(\d+)"', st.text): group(1) or no match
IdSearch(text) ==
    CASE text = "tr[data-row-company-id=\"1818\"]{font-weight:500}" -> Some("1818")
      [] text = "tr[data-row-company-id=\"77\"]{color:red}" -> Some("77")
      [] OTHER -> NONE

\* the loop over style_tags: the first match, then break
RECURSIVE FirstId(_, _)
FirstId(style_tags, i) ==
    IF i > Len(style_tags) THEN NONE
    ELSE IF IdSearch(style_tags[i]) # NONE THEN IdSearch(style_tags[i])
    ELSE FirstId(style_tags, i + 1)

\* href.startswith("#")
StartsWithHash(href) == href \in {"#peers", "#extra", "#"}

\* href.lstrip("#")
LStripHash(href) ==
    CASE href = "#peers" -> "peers"
      [] href = "#extra" -> "extra"
      [] href = "#" -> ""
      [] OTHER -> href

parser_map ==
    [x \in {"Summary", "top", "Chart", "analysis", "Analysis", "peers", "Peers",
            "quarters", "Quarters", "profit-loss", "Profit & Loss",
            "balance-sheet", "Balance Sheet", "cash-flow", "Cash Flow",
            "ratios", "Ratios", "shareholding", "investors", "Investors",
            "documents", "Documents"} |->
        CASE x \in {"Summary", "top"} -> "parse_summary_section"
          [] x = "Chart" -> "None"
          [] x \in {"analysis", "Analysis"} -> "parse_analysis_section"
          [] x \in {"peers", "Peers"} -> "parse_peers_section"
          [] x \in {"quarters", "Quarters"} -> "parse_quarters_section"
          [] x \in {"profit-loss", "Profit & Loss"} -> "parse_profit_loss_section"
          [] x \in {"balance-sheet", "Balance Sheet"} -> "parse_balance_sheet_section"
          [] x \in {"cash-flow", "Cash Flow"} -> "parse_cash_flow_section"
          [] x \in {"ratios", "Ratios"} -> "parse_ratios_section"
          [] x \in {"shareholding", "investors", "Investors"} -> "parse_shareholding_section"
          [] x \in {"documents", "Documents"} -> "parse_documents_section"]

\* parser_map.get(key)
MapGet(key) == IF key \in DOMAIN parser_map THEN parser_map[key] ELSE "None"

\* parser_func(section_tag)
Apply(parser_func, section_tag) ==
    CASE parser_func = "parse_summary_section" -> parse_summary_section(section_tag)
      [] parser_func = "parse_analysis_section" -> parse_analysis_section(section_tag)
      [] parser_func = "parse_peers_section" -> parse_peers_section(section_tag)
      [] parser_func = "parse_quarters_section" -> parse_quarters_section(section_tag)
      [] parser_func = "parse_profit_loss_section" -> parse_profit_loss_section(section_tag)
      [] parser_func = "parse_balance_sheet_section" -> parse_balance_sheet_section(section_tag)
      [] parser_func = "parse_cash_flow_section" -> parse_cash_flow_section(section_tag)
      [] parser_func = "parse_ratios_section" -> parse_ratios_section(section_tag)
      [] parser_func = "parse_shareholding_section" -> parse_shareholding_section(section_tag)
      [] parser_func = "parse_documents_section" -> parse_documents_section(section_tag)

\* soup.select_one(f"{tag}#{section_id}"): the first such element's content
RECURSIVE SelectById(_, _, _, _)
SelectById(elems, tag, section_id, i) ==
    IF i > Len(elems) THEN NONE
    ELSE IF elems[i].tag = tag /\ elems[i].id = section_id THEN Some(elems[i].content)
    ELSE SelectById(elems, tag, section_id, i + 1)

\* select_one(f"section#{id}") or select_one(f"div#{id}")
SectionTag(page, section_id) ==
    IF SelectById(page.elems, "section", section_id, 1) # NONE
    THEN SelectById(page.elems, "section", section_id, 1)
    ELSE SelectById(page.elems, "div", section_id, 1)

NoParser == [info |-> "No specialized parser for this section."]

NoCommentary == [info |-> "Company ID not found, so commentary not fetched."]

\* --- the documents the fetches may return

BenchmarkTable ==
    [classes |-> {"data-table"},
     thead |-> Some(<< <<CellB>> >>),
     tbody |-> Some(<< <<CellB, CellA>> >>),
     tfoot |-> NONE]

PeerTable ==
    [classes |-> PeerClasses,
     thead |-> Some(<< <<[tag |-> "th", text |-> "a"]>> >>),
     tbody |-> Some(<< <<Blank>>, <<CellA, Blank>> >>),
     tfoot |-> Some(<< <<Blank, CellA>> >>)]

SectionPeers ==
    [about |-> NONE, key_points |-> NONE, top_ratios |-> <<>>, pros |-> NONE,
     cons |-> NONE, tables |-> <<BenchmarkTable, PeerTable>>, text |-> " Peers "]

DivPeers ==
    [about |-> Some(" b "), key_points |-> NONE,
     top_ratios |-> << [name |-> Some("a"), value |-> NONE] >>,
     pros |-> Some(<<"a">>), cons |-> NONE, tables |-> <<>>, text |-> "a"]

DivExtra ==
    [about |-> NONE, key_points |-> Some(" is a  bank "), top_ratios |-> <<>>,
     pros |-> NONE, cons |-> Some(<<" b ">>), tables |-> <<BenchmarkTable>>,
     text |-> " is a  bank "]

AllElems == << [tag |-> "section", id |-> "peers", content |-> SectionPeers],
               [tag |-> "div", id |-> "peers", content |-> DivPeers],
               [tag |-> "div", id |-> "extra", content |-> DivExtra] >>

\* the elements of AllElems at the indices in S, in document order
RECURSIVE Pick(_, _, _)
Pick(elems, S, i) ==
    IF i > Len(elems) THEN <<>>
    ELSE (IF i \in S THEN <<elems[i]>> ELSE <<>>) \o Pick(elems, S, i + 1)

GridDiv ==
    SectionOf(<< [classes |-> {"ranges-table"}, thead |-> NONE,
                  tbody |-> Some(<<HeadSales, DataRow>>), tfoot |-> NONE] >>)

\* anchors of the sub-nav: a parser registered for the label, for the id
\* only (empty label, or the "Chart" entry, which is None), for neither; an
\* empty fragment; a link that leaves the page
Anchors ==
    {[href |-> "#peers", text |-> " Peers "],
     [href |-> "#peers", text |-> ""],
     [href |-> "#peers", text |-> "Chart"],
     [href |-> "#extra", text |-> "Chart"],
     [href |-> "#", text |-> " Peers "],
     [href |-> "/company/KOTAKBANK/", text |-> "Chart"]}

Pages ==
    [name : {NONE, Some(" Kotak Mahindra Bank Ltd ")},
     styles : SeqsUpTo(StyleTexts, MaxStyles),
     nav : {NONE} \cup {Some(a) : a \in SeqsUpTo(Anchors, MaxLinks)},
     elems : {Pick(AllElems, S, 1) : S \in SUBSET (1..Len(AllElems))},
     grid : {NONE, Some(GridDiv)}]

CommentaryDocs ==
    {<<>>,
     << [name |-> "div", classes |-> HeadingClasses, text |-> " About "],
        [name |-> "div", classes |-> {"sub"}, text |-> " is a  bank "] >>}

\* --- the steps

Init ==
    /\ pc = "start"
    /\ soup = NONE
    /\ results = EmptyDict
    /\ company_id = NONE
    /\ link_idx = 0
    /\ fetches = <<>>
    /\ commentary = NONE
    /\ returned = NONE
    /\ called = "none"
    /\ arg = NONE
    /\ ret = NONE

\* the primary fetch without the raise_for_status() call
FetchPrimaryNoRaise ==
    /\ pc = "start"
    /\ \E status \in Statuses, page \in Pages :
          /\ fetches' = Append(fetches, [target |-> "primary", id |-> "", status |-> status])
          /\ pc' = "header"
          /\ soup' = Some(page)
    /\ UNCHANGED <<results, company_id, link_idx, commentary, returned, callVars>>

\* resp = requests.get(url); resp.raise_for_status(); soup = BeautifulSoup(...)
FetchPrimary ==
    /\ pc = "start"
    /\ \E status \in Statuses, page \in Pages :
          /\ fetches' = Append(fetches, [target |-> "primary", id |-> "", status |-> status])
          /\ IF raise_for_status(status)
             THEN pc' = "raised" /\ soup' = soup
             ELSE pc' = "header" /\ soup' = Some(page)
    /\ UNCHANGED <<results, company_id, link_idx, commentary, returned, callVars>>

\* steps 1 and 2 with the "N/A" sentinel stored in company_id itself
ExtractHeaderSentinelId ==
    /\ pc = "header"
    /\ company_id' = IF FirstId(soup[1].styles, 1) # NONE
                     THEN FirstId(soup[1].styles, 1) ELSE Some("N/A")
    /\ results' = Put(Put(EmptyDict, "company_name", parse_company_name(soup[1])),
                      "company_id", company_id'[1])
    /\ pc' = "nav"
    /\ UNCHANGED <<soup, link_idx, fetches, commentary, returned, callVars>>

\* results = {}; steps 1 and 2: company_name and company_id
ExtractHeader ==
    /\ pc = "header"
    /\ company_id' = FirstId(soup[1].styles, 1)
    /\ results' = Put(Put(EmptyDict, "company_name", parse_company_name(soup[1])),
                      "company_id",
                      IF company_id' # NONE THEN company_id'[1] ELSE "N/A")
    /\ pc' = "nav"
    /\ UNCHANGED <<soup, link_idx, fetches, commentary, returned, callVars>>

\* step 3 with the commentary placeholder merged before the early return
LocateNavEarlyPlaceholder ==
    /\ pc = "nav"
    /\ IF soup[1].nav = NONE
       THEN /\ pc' = "early"
            /\ returned' = Some(Put(results, "commentary", NoCommentary))
            /\ link_idx' = link_idx
       ELSE /\ pc' = "loop"
            /\ returned' = returned
            /\ link_idx' = 1
    /\ UNCHANGED <<soup, results, company_id, fetches, commentary, callVars>>

\* step 3: sub_nav = select_one(...); if not sub_nav: return results
LocateNav ==
    /\ pc = "nav"
    /\ IF soup[1].nav = NONE
       THEN /\ pc' = "early"
            /\ returned' = Some(results)
            /\ link_idx' = link_idx
       ELSE /\ pc' = "loop"
            /\ returned' = returned
            /\ link_idx' = 1
    /\ UNCHANGED <<soup, results, company_id, fetches, commentary, callVars>>

nav_links == soup[1].nav[1]

\* the loop body with the entry keyed by the fragment id
LinkEffectKeyById(link, res) ==
    LET href == link.href
        section_id == LStripHash(href)
        link_label == IF Strip(link.text) # "" THEN Strip(link.text) ELSE section_id
        section_tag == SectionTag(soup[1], section_id)
        parser_func == IF MapGet(link_label) # "None" THEN MapGet(link_label)
                       ELSE MapGet(section_id)
    IN  IF ~StartsWithHash(href) THEN res
        ELSE IF section_id = "" THEN res
        ELSE IF section_tag = NONE THEN res
        ELSE IF parser_func # "None"
        THEN Put(res, section_id, Apply(parser_func, section_tag[1]))
        ELSE Put(res, section_id, NoParser)

\* the body of "for link in nav_links", for one link
LinkEffect(link, res) ==
    LET href == link.href
        section_id == LStripHash(href)
        link_label == IF Strip(link.text) # "" THEN Strip(link.text) ELSE section_id
        section_tag == SectionTag(soup[1], section_id)
        parser_func == IF MapGet(link_label) # "None" THEN MapGet(link_label)
                       ELSE MapGet(section_id)
    IN  IF ~StartsWithHash(href) THEN res
        ELSE IF section_id = "" THEN res
        ELSE IF section_tag = NONE THEN res
        ELSE IF parser_func # "None"
        THEN Put(res, link_label, Apply(parser_func, section_tag[1]))
        ELSE Put(res, link_label, NoParser)

ProcessLink ==
    /\ pc = "loop"
    /\ link_idx <= Len(nav_links)
    /\ results' = LinkEffect(nav_links[link_idx], results)
    /\ link_idx' = link_idx + 1
    /\ UNCHANGED <<pc, soup, company_id, fetches, commentary, returned, callVars>>

\* step 4 writing growth_metrics whether or not the container exists
GrowthStepAlways ==
    /\ pc = "loop"
    /\ link_idx > Len(nav_links)
    /\ results' = Put(results, "growth_metrics",
                      IF soup[1].grid # NONE
                      THEN parse_growth_tables(soup[1].grid[1]) ELSE EmptyDict)
    /\ pc' = "commentary"
    /\ UNCHANGED <<soup, company_id, link_idx, fetches, commentary, returned, callVars>>

\* step 4: growth_div = select_one(...); if growth_div: results[...] = ...
GrowthStep ==
    /\ pc = "loop"
    /\ link_idx > Len(nav_links)
    /\ results' = IF soup[1].grid # NONE
                  THEN Put(results, "growth_metrics", parse_growth_tables(soup[1].grid[1]))
                  ELSE results
    /\ pc' = "commentary"
    /\ UNCHANGED <<soup, company_id, link_idx, fetches, commentary, returned, callVars>>

\* step 5 with a company id: fetch_commentary_data(company_id), then return
FetchCommentary ==
    /\ pc = "commentary"
    /\ company_id # NONE
    /\ \E status \in Statuses, html \in CommentaryDocs :
          /\ fetches' = Append(fetches, [target |-> "commentary", id |-> company_id[1],
                                         status |-> status])
          /\ IF raise_for_status(status)
             THEN /\ pc' = "raised"
                  /\ UNCHANGED <<results, commentary, returned>>
             ELSE /\ commentary' = Some(html)
                  /\ results' = Put(results, "commentary", parse_commentary_html(html))
                  /\ returned' = Some(results')
                  /\ pc' = "done"
    /\ UNCHANGED <<soup, company_id, link_idx, callVars>>

\* step 5 without one: the placeholder, then return
SkipCommentary ==
    /\ pc = "commentary"
    /\ company_id = NONE
    /\ results' = Put(results, "commentary", NoCommentary)
    /\ returned' = Some(results')
    /\ pc' = "done"
    /\ UNCHANGED <<soup, company_id, link_idx, fetches, commentary, callVars>>

Next ==
    \/ FetchPrimary
    \/ ExtractHeader
    \/ LocateNav
    \/ ProcessLink
    \/ GrowthStep
    \/ FetchCommentary
    \/ SkipCommentary

Spec == Init /\ [][Next]_vars

-----------------------------------------------------------------------------
(* Properties of the parsers *)

TableParsers ==
    [parse_quarters_section |-> "quarterly_results",
     parse_profit_loss_section |-> "profit_loss",
     parse_balance_sheet_section |-> "balance_sheet",
     parse_cash_flow_section |-> "cash_flow",
     parse_ratios_section |-> "ratios",
     parse_shareholding_section |-> "shareholding"]

IsEmptyTable(v) ==
    /\ DOMAIN v = {"headers", "rows"}
    /\ v["headers"] = <<>>
    /\ v["rows"] = <<>>

\* C6: parse_table on an absent table returns {headers: [], rows: []}, and
\* each of the six table sections, applied to a section with no data table,
\* yields a sub-mapping whose value has a headers and a rows key, both empty
\* lists.
C6_AbsentTableIsEmptyTable ==
    /\ (called = "parse_table" /\ arg = NONE) => IsEmptyTable(ret)
    /\ (called \in DOMAIN TableParsers /\ DataTable(SectionOf(arg)) = NONE)
          => /\ DOMAIN ret = {TableParsers[called]}
             /\ IsEmptyTable(ret[TableParsers[called]])

\* the indices of the rows with a cell that is non-empty once trimmed
KeptIdx(rows) ==
    {j \in 1..Len(rows) : \E c \in 1..Len(rows[j]) : Strip(rows[j][c].text) # ""}

\* out is the kept rows of rows, trimmed, in their order: the n-th kept row
\* is the n-th row of out
IsKeptRows(out, rows) ==
    /\ Len(out) = Cardinality(KeptIdx(rows))
    /\ \A j \in KeptIdx(rows) :
          LET n == Cardinality({k \in KeptIdx(rows) : k <= j})
          IN  /\ Len(out[n]) = Len(rows[j])
              /\ \A c \in 1..Len(rows[j]) : out[n][c] = Strip(rows[j][c].text)

\* C7: the rows parse_table returns are exactly the body rows with a
\* non-empty cell after trimming, in document order: no all-blank row is
\* kept, none with a non-empty cell is dropped, the order is the input's.
C7_RowsAreNonBlankBodyRowsInOrder ==
    (called = "parse_table" /\ arg # NONE)
        => IsKeptRows(ret["rows"], PartRows(arg[1].tbody))

\* a table whose body has a blank row between two different non-blank rows
C7_Witness ==
    /\ called = "parse_table"
    /\ arg # NONE
    /\ arg[1].tbody = Some(<< <<CellA>>, <<Blank, Blank>>, <<Blank, CellB>> >>)
    /\ ret["rows"] = << <<"a">>, <<"", "b">> >>

\* C8: parse_commentary_html maps a heading to a text only when the node
\* immediately following the heading among its siblings is a body block,
\* the value being that block's text; a heading whose immediately following
\* sibling is no body block is absent from the output.
C8_OnlyImmediateSibling ==
    called = "parse_commentary_html" =>
        \A h \in DOMAIN ret :
            \E i \in 1..Len(arg) :
                /\ IsHeading(arg[i])
                /\ Strip(arg[i].text) = h
                /\ i + 1 <= Len(arg)
                /\ IsSub(arg[i + 1])
                /\ ret[h] = StripJoin(arg[i + 1].text)

\* C9: every (period, value) entry under a metric name comes from a row of
\* exactly two data cells that is preceded, inside the same ranges-table, by
\* a heading row carrying that metric name; the period is the first cell's
\* text without its trailing colons.
C9_EntriesComeFromHeadedTwoCellRows ==
    called = "parse_growth_tables" =>
        \A m \in DOMAIN ret : \A p \in DOMAIN ret[m] :
            \E t \in 1..Len(arg.tables) :
                LET rows == AllTr(arg.tables[t])
                IN  /\ "ranges-table" \in arg.tables[t].classes
                    /\ \E j \in 1..Len(rows) :
                          /\ \A c \in 1..Len(rows[j]) : rows[j][c].tag = "td"
                          /\ Len(rows[j]) = 2
                          /\ RStripColon(Strip(rows[j][1].text)) = p
                          /\ Strip(rows[j][2].text) = ret[m][p]
                          /\ \E i \in 1..(j - 1) :
                                \E c \in 1..Len(rows[i]) :
                                    /\ rows[i][c].tag = "th"
                                    /\ Strip(rows[i][c].text) = m

\* a heading row alone in the first table, a two-cell row alone in the
\* second: the row contributes nothing
C9_WitnessNoCarry ==
    /\ called = "parse_growth_tables"
    /\ Len(arg.tables) = 2
    /\ arg.tables[1].classes = {"ranges-table"}
    /\ arg.tables[2].classes = {"ranges-table"}
    /\ arg.tables[1].tbody = Some(<<HeadSales>>)
    /\ arg.tables[2].tbody = Some(<<DataRow>>)
    /\ DOMAIN ret = {"Compounded Sales Growth"}
    /\ DOMAIN ret["Compounded Sales Growth"] = {}

\* the th cells of the rows, row after row
RECURSIVE ThTexts(_)
ThTexts(rows) ==
    IF rows = <<>> THEN <<>>
    ELSE CellTexts(SelectTag(Head(rows), "th")) \o ThTexts(Tail(rows))

PeerIdx(tables) == {i \in 1..Len(tables) : PeerClasses \subseteq tables[i].classes}

\* C10: parse_peers_section returns under peer_comparison the headers, the
\* non-blank body rows and the non-blank footer rows of the (first) table
\* carrying the composite class set, never those of a table lacking it;
\* with no such table it returns the placeholder and no headers, rows or
\* footer.
C10_PeerTableOnly ==
    called = "parse_peers_section" =>
        /\ DOMAIN ret = {"peer_comparison"}
        /\ LET d == ret["peer_comparison"]
               P == PeerIdx(arg.tables)
           IN  IF P = {}
               THEN /\ DOMAIN d = {"info"}
                    /\ d["info"] = "No peer table found"
               ELSE LET t == arg.tables[CHOOSE i \in P : \A k \in P : i <= k]
                    IN  /\ DOMAIN d = {"headers", "rows", "footer"}
                        /\ d["headers"] = ThTexts(PartRows(t.thead))
                        /\ IsKeptRows(d["rows"], PartRows(t.tbody))
                        /\ IsKeptRows(d["footer"], PartRows(t.tfoot))

\* a benchmark table with data, then the peer table: the peer table's data
C10_Witness ==
    /\ called = "parse_peers_section"
    /\ Len(arg.tables) = 2
    /\ arg.tables[1].classes = {"data-table"}
    /\ arg.tables[1].tbody = Some(<< <<CellB>> >>)
    /\ arg.tables[2].classes = PeerClasses
    /\ arg.tables[2].tbody = Some(<< <<Blank>>, <<CellA, Blank>> >>)
    /\ arg.tables[2].tfoot # NONE
    /\ ret["peer_comparison"]["rows"] = << <<"a", "">> >>
    /\ ret["peer_comparison"]["footer"] = << <<"", "a">> >>

-----------------------------------------------------------------------------
(* Properties of scrape_screener_data *)

Page == soup[1]

FetchesOf(target) == {i \in 1..Len(fetches) : fetches[i].target = target}

\* the status is an HTTP error status
ErrorStatus(status) == status >= 400

\* the style blocks in which the identifier pattern matches
MatchIdx == {i \in 1..Len(Page.styles) : IdSearch(Page.styles[i]) # NONE}

FirstMatch == IdSearch(Page.styles[CHOOSE i \in MatchIdx : \A k \in MatchIdx : i <= k])[1]

\* the run has found the navigation list
PastNav == soup # NONE /\ Page.nav # NONE /\ pc \in {"loop", "commentary", "done", "raised"}

\* C1: past the navigation-list check, the commentary fetch is issued
\* exactly once if an identifier matched in some style block (for the first
\* match), and results["commentary"] is then parse_commentary_html of the
\* document received; with no match company_id is "N/A", no commentary
\* fetch is issued and results["commentary"] is the placeholder.  The
\* commentary fetch comes after the primary fetch and after the link loop.
C1_CommentaryFetchedOnceIffIdFound ==
    PastNav =>
        /\ Cardinality(FetchesOf("commentary")) <= 1
        /\ \A i \in FetchesOf("commentary") :
              /\ i = 2
              /\ fetches[1].target = "primary"
              /\ link_idx > Len(Page.nav[1])
              /\ MatchIdx # {}
              /\ fetches[i].id = FirstMatch
        /\ pc \in {"done", "raised"} =>
              (MatchIdx # {} <=> Cardinality(FetchesOf("commentary")) = 1)
        /\ pc = "done" =>
              IF MatchIdx # {}
              THEN /\ returned[1]["company_id"] = FirstMatch
                   /\ returned[1]["commentary"] = parse_commentary_html(commentary[1])
              ELSE /\ returned[1]["company_id"] = "N/A"
                   /\ returned[1]["commentary"] = NoCommentary

\* two style blocks with different identifiers: the first one is fetched
C1_Witness ==
    /\ pc = "done"
    /\ Len(Page.styles) = 2
    /\ IdSearch(Page.styles[1]) = Some("77")
    /\ IdSearch(Page.styles[2]) = Some("1818")
    /\ fetches[2] = [target |-> "commentary", id |-> "77", status |-> 200]
    /\ DOMAIN returned[1]["commentary"] = {"About"}

\* C2: an error status on either fetch aborts the run and nothing is
\* returned; after a failed primary fetch nothing is parsed and no
\* commentary fetch is issued; after a failed commentary fetch the parsed
\* sections are not returned.  Each fetch is issued at most once.
C2_FetchFailureAborts ==
    /\ \A i \in 1..Len(fetches) :
          ErrorStatus(fetches[i].status) =>
              /\ pc = "raised"
              /\ returned = NONE
              /\ i = Len(fetches)
    /\ (Len(fetches) >= 1 /\ ErrorStatus(fetches[1].status)) =>
          /\ soup = NONE
          /\ results = EmptyDict
          /\ FetchesOf("commentary") = {}
    /\ Cardinality(FetchesOf("primary")) <= 1
    /\ Cardinality(FetchesOf("commentary")) <= 1
    /\ pc = "raised" => ErrorStatus(fetches[Len(fetches)].status)

\* the commentary fetch fails after a section has been parsed
C2_Witness ==
    /\ pc = "raised"
    /\ Len(fetches) = 2
    /\ fetches[2].status = 503
    /\ "Peers" \in DOMAIN results
    /\ returned = NONE

\* C3: with no navigation list the function returns at once a mapping whose
\* keys are exactly company_name and company_id, identifier found or not,
\* and the run ends normally.
C3_NoNavReturnsNameAndIdOnly ==
    /\ pc = "early" =>
          /\ Page.nav = NONE
          /\ returned # NONE
          /\ DOMAIN returned[1] = {"company_name", "company_id"}
          /\ Len(fetches) = 1
    /\ (soup # NONE /\ Page.nav = NONE /\ pc \notin {"header", "nav"}) => pc = "early"

\* no navigation list, an identifier found, a grid container present
C3_Witness ==
    /\ pc = "early"
    /\ company_id = Some("1818")
    /\ Page.grid # NONE
    /\ returned[1]["company_id"] = "1818"

\* --- what an anchor resolves to, read off the document

AnchorId(link) == LStripHash(link.href)

AnchorKey(link) == IF Strip(link.text) = "" THEN AnchorId(link) ELSE Strip(link.text)

ElemIdx(tag, id) == {i \in 1..Len(Page.elems) : Page.elems[i].tag = tag /\ Page.elems[i].id = id}

Resolves(link) ==
    /\ StartsWithHash(link.href)
    /\ AnchorId(link) # ""
    /\ ElemIdx("section", AnchorId(link)) \cup ElemIdx("div", AnchorId(link)) # {}

\* the container: the first section with the id, else the first div
Container(link) ==
    LET S == ElemIdx("section", AnchorId(link))
        D == ElemIdx("div", AnchorId(link))
        T == IF S # {} THEN S ELSE D
    IN  Page.elems[CHOOSE i \in T : \A k \in T : i <= k].content

Registered(key) == key \in DOMAIN parser_map /\ parser_map[key] # "None"

AnchorValue(link) ==
    IF Registered(AnchorKey(link))
    THEN Apply(parser_map[AnchorKey(link)], Container(link))
    ELSE IF Registered(AnchorId(link))
    THEN Apply(parser_map[AnchorId(link)], Container(link))
    ELSE NoParser

FixedKeys == {"company_name", "company_id", "growth_metrics", "commentary"}

\* the anchors the loop has gone through
Processed ==
    IF pc = "loop" THEN 1..(link_idx - 1) ELSE 1..Len(Page.nav[1])

ResolvedIdx == {i \in Processed : Resolves(Page.nav[1][i])}

\* the last resolved anchor, among those processed, with the key of anchor i
IsLastOfKey(i) ==
    \A k \in ResolvedIdx :
        AnchorKey(Page.nav[1][k]) = AnchorKey(Page.nav[1][i]) => k <= i

\* The anchors processed so far have written exactly the entries of those
\* that resolve, each under AnchorKey with AnchorValue: an anchor that does
\* not resolve has changed nothing, a resolved one has written its entry.
AnchorEntries ==
    (PastNav /\ pc # "raised") =>
        LET doc == IF pc = "done" THEN returned[1] ELSE results
        IN  /\ DOMAIN doc \ FixedKeys = {AnchorKey(Page.nav[1][i]) : i \in ResolvedIdx}
            /\ \A i \in ResolvedIdx :
                  IsLastOfKey(i) =>
                      doc[AnchorKey(Page.nav[1][i])] = AnchorValue(Page.nav[1][i])
            /\ pc = "loop" => DOMAIN doc \cap FixedKeys = {"company_name", "company_id"}
            /\ doc["company_name"] = parse_company_name(Page)
            /\ doc["company_id"] = IF MatchIdx = {} THEN "N/A" ELSE FirstMatch

\* as many section entries as resolved anchors
OneEntryPerResolvedAnchor ==
    (PastNav /\ pc # "raised") =>
        LET doc == IF pc = "done" THEN returned[1] ELSE results
        IN  Cardinality(DOMAIN doc \ FixedKeys) = Cardinality(ResolvedIdx)

\* C4 (as claimed): an anchor whose href is no in-page fragment, whose
\* fragment id is empty or whose id names no section and no div leaves
\* results unchanged; any other anchor writes exactly one entry, keyed by its
\* label (its id when the label is empty), holding the output of the parser
\* registered for the label or the id, or the "No specialized parser"
\* placeholder.  Consequently the returned document holds one entry per
\* resolved anchor.
C4_OneEntryPerResolvedAnchor == AnchorEntries /\ OneEntryPerResolvedAnchor

\* C4 (amended): the per-anchor part as claimed; the document, after each
\* anchor and as returned, holds one entry per distinct key of the resolved
\* anchors: resolved anchors with the same key share one entry, which holds
\* the output for the last of them.
C4_OneEntryPerResolvedKey == AnchorEntries

\* two resolved anchors with the same label, one returned entry
C4_Witness ==
    /\ pc = "done"
    /\ Len(Page.nav[1]) = 2
    /\ Page.nav[1][1] = [href |-> "#peers", text |-> "Chart"]
    /\ Page.nav[1][2] = [href |-> "#extra", text |-> "Chart"]
    /\ ResolvedIdx = {1, 2}
    /\ DOMAIN returned[1] \ FixedKeys = {"Chart"}
    /\ returned[1]["Chart"] = NoParser

IsMappingOfMappings(d) ==
    \A m \in DOMAIN d : \A p \in DOMAIN d[m] : d[m][p] \in STRING

\* C5 (as claimed): every document returned after the link loop holds the
\* keys company_name, company_id, growth_metrics and commentary, with
\* growth_metrics a mapping of mappings, grid-styled container or not.
C5_AlwaysGrowthMetrics ==
    pc = "done" =>
        /\ FixedKeys \subseteq DOMAIN returned[1]
        /\ IsMappingOfMappings(returned[1]["growth_metrics"])

\* C5 (amended): every document returned after the link loop holds the keys
\* company_name, company_id and commentary; it holds growth_metrics, a
\* mapping of mappings, exactly when the page has a grid-styled container
\* (no section entry being keyed growth_metrics).
C5_GrowthMetricsIffGrid ==
    pc = "done" =>
        /\ {"company_name", "company_id", "commentary"} \subseteq DOMAIN returned[1]
        /\ "growth_metrics" \in DOMAIN returned[1] <=> Page.grid # NONE
        /\ Page.grid # NONE =>
              /\ IsMappingOfMappings(returned[1]["growth_metrics"])
              /\ returned[1]["growth_metrics"] = parse_growth_tables(Page.grid[1])

\* a page without grid container: no growth_metrics key in the document
C5_Witness ==
    /\ pc = "done"
    /\ Page.grid = NONE
    /\ Page.nav[1] # <<>>
    /\ "growth_metrics" \notin DOMAIN returned[1]
    /\ "commentary" \in DOMAIN returned[1]

====
